---------------------------- MODULE Spec2Model ----------------------------
(***************************************************************************)
(* Model of src/sign.cc: the PKCS#11 sign / verify conformance tests.      *)
(*                                                                         *)
(* One behaviour is the run of one test body.  The PKCS#11 module under    *)
(* test (g_fns) is outside the repository: every reply it gives (return    *)
(* code, bytes written, length reported) is a nondeterministic choice.     *)
(* What the model fixes is what sign.cc fixes: which calls are made, in    *)
(* which order, with which arguments, what each result is compared with,   *)
(* and whether a mismatch ends the test (ASSERT), is only recorded         *)
(* (EXPECT) or marks the test skipped.  The calls the fixture's SetUp and  *)
(* TearDown and the KeyPair destructor make are not in sign.cc and are not *)
(* modelled.                                                               *)
(*                                                                         *)
(* A byte buffer is the sequence of its cells whose value is determined;   *)
(* the cells behind it are uninitialised.                                  *)
(***************************************************************************)
EXTENDS Integers, Sequences, FiniteSets

(* ------------------------------ bounds -------------------------------- *)

\* info_.max_data of the tables in pkcs11test.h is not in src/: datalen_ is
\* drawn from 0 .. MaxData-1.
MaxData == 2

\* Longest signature the module writes in the model (past ShortLen, so that
\* a length of ShortLen truncates a signature).
MaxSigLen == 5

\* Number of distinct keypairs the module may hand out.
MaxKeys == 2

(* ------------------------- program constants -------------------------- *)

\* CK_BYTE output[1024]; output_len = sizeof(output)
OutputSize == 1024

\* CK_BYTE output[2048] / recovered[2048] of SignVerifyRecover
RecoverSize == 2048

\* datalen_ = 64 (SHA512) in SignTestEC, datalen = 64 in SignVerifyRecover
DigestLen == 64

\* the signature length handed to C_Verify by SignFailVerifyShort
ShortLen == 4

\* CK_BYTE is an unsigned 8-bit value: output[0]++ wraps at 256
ByteMod == 256

\* INVALID_OBJECT_HANDLE stands for the handles of a keypair not generated
INVALID_OBJECT_HANDLE == 0

(* ------------------------------ values -------------------------------- *)

SampleBytes == {0, 255}

Fill(n, b) == [i \in 1..n |-> b]

\* the first byte is drawn, the others follow from it and their position
Bytes(n, b) == [i \in 1..n |-> IF i = 1 THEN b ELSE (b + i) % ByteMod]

CKR == {"CKR_OK", "CKR_MECHANISM_INVALID", "CKR_FUNCTION_NOT_SUPPORTED",
        "CKR_SIGNATURE_INVALID", "CKR_SIGNATURE_LEN_RANGE",
        "CKR_GENERAL_ERROR"}

\* INSTANTIATE_TEST_CASE_P(Signatures, SignTest, ...)
Signatures == {"RSA", "MD5-RSA", "SHA1-RSA", "SHA256-RSA", "SHA384-RSA",
               "SHA512-RSA"}

\* INSTANTIATE_TEST_CASE_P(SignaturesEC, SignTestEC, ...)
SignaturesEC == {"NIST-SECP192R1", "NIST-SECP224R1", "NIST-SECP256R1",
                 "NIST-SECP384R1", "NIST-SECP521R1"}

ParamTestNames == {"SignVerify", "SignFailVerifyWrong", "SignFailVerifyShort"}

Tests ==
     [fixture : {"SignTest"}, name : ParamTestNames, param : Signatures]
  \cup [fixture : {"SignTestEC"}, name : ParamTestNames, param : SignaturesEC]
  \cup {[fixture |-> "ROUserSessionTest", name |-> "SignVerifyRecover",
         param |-> ""]}

\* kSignatureInfo[...].alg for the parameters of SignTest
SignTestAlg(p) ==
  CASE p = "RSA"        -> "CKM_RSA_PKCS"
    [] p = "MD5-RSA"    -> "CKM_MD5_RSA_PKCS"
    [] p = "SHA1-RSA"   -> "CKM_SHA1_RSA_PKCS"
    [] p = "SHA256-RSA" -> "CKM_SHA256_RSA_PKCS"
    [] p = "SHA384-RSA" -> "CKM_SHA384_RSA_PKCS"
    [] OTHER            -> "CKM_SHA512_RSA_PKCS"

\* kSignatureInfo["ECDSA"].alg: the constructor of SignTestEC itself tests
\* whether it is CKM_ECDSA, so both outcomes are kept.
SignTestECAlgs == {"CKM_ECDSA", "CKM_ECDSA_SHA1"}

CK_MECHANISM(alg) == [mechanism |-> alg, pParameter |-> "NULL_PTR",
                      ulParameterLen |-> 0]

NoMechanism == CK_MECHANISM("")

\* randmalloc(len): len bytes of random data
randmalloc(len) == {Fill(len, b) : b \in SampleBytes}

VARIABLES
  test,           \* the test that runs: fixture, name, parameter
  pc,             \* the statement of the test body that runs next
  mechanism_,     \* mechanism_ of the fixture (mechanism of SignVerifyRecover)
  data_,          \* data_ of the fixture (data of SignVerifyRecover)
  datalen_,       \* datalen_ of the fixture (datalen of SignVerifyRecover)
  keypair,        \* the KeyPair / KeyPairEC local of the test body
  rv,             \* CK_RV rv: what C_SignInit / C_SignRecoverInit returned
  output,         \* CK_BYTE output[]: the cells written so far
  output_len,     \* CK_ULONG output_len
  recovered,      \* CK_BYTE recovered[] of SignVerifyRecover
  recovered_len,  \* CK_ULONG recovered_len
  calls,          \* the calls made to the module so far, in order
  failed,         \* a failure is recorded for the test (ASSERT / EXPECT)
  skipped         \* the test is recorded as skipped (TEST_SKIPPED)

vars == <<test, pc, mechanism_, data_, datalen_, keypair, rv, output,
          output_len, recovered, recovered_len, calls, failed, skipped>>

IsParamTest == test.fixture \in {"SignTest", "SignTestEC"}

NoKeyPair == [valid |-> FALSE, public_handle |-> INVALID_OBJECT_HANDLE,
              private_handle |-> INVALID_OBJECT_HANDLE]

\* one call to the module: the function, the arguments that matter to it,
\* what it wrote and what it returned
Call(fn, key, mech, data, datalen, sig, siglen, out, outlen, r) ==
  [fn |-> fn, key |-> key, mech |-> mech, data |-> data, datalen |-> datalen,
   sig |-> sig, siglen |-> siglen, out |-> out, outlen |-> outlen, rv |-> r]

(* ------------------------- fixture construction ----------------------- *)

\* SignTest(): datalen_(rand() % max_data), data_(randmalloc(datalen_)),
\* mechanism_({info_.alg, NULL_PTR, 0})
SignTestFixture(t) ==
  /\ t.fixture = "SignTest"
  /\ mechanism_ = CK_MECHANISM(SignTestAlg(t.param))
  /\ datalen_ \in 0..(MaxData - 1)
  /\ data_ \in randmalloc(datalen_)

\* SignTestEC(): with CKM_ECDSA the data is the 64-byte SHA-512 digest of
\* random data, read back from its hex text (any 64 bytes); otherwise it is
\* rand_len random bytes.
SignTestECFixture(t) ==
  /\ t.fixture = "SignTestEC"
  /\ \E alg \in SignTestECAlgs : mechanism_ = CK_MECHANISM(alg)
  /\ IF mechanism_.mechanism = "CKM_ECDSA"
       THEN datalen_ = DigestLen
       ELSE datalen_ \in 0..(MaxData - 1)
  /\ data_ \in randmalloc(datalen_)

\* ROUserSessionTest has no members of its own that sign.cc uses
ROUserSessionTestFixture(t) ==
  /\ t.fixture = "ROUserSessionTest"
  /\ mechanism_ = NoMechanism
  /\ datalen_ = 0
  /\ data_ = <<>>

Init ==
  /\ test \in Tests
  /\ \/ SignTestFixture(test)
     \/ SignTestECFixture(test)
     \/ ROUserSessionTestFixture(test)
  /\ pc = "KeyPair"
  /\ keypair = NoKeyPair
  /\ rv = "unset"
  /\ output = <<>>
  /\ output_len = 0
  /\ recovered = <<>>
  /\ recovered_len = 0
  /\ calls = <<>>
  /\ failed = FALSE
  /\ skipped = FALSE

(* ------------------------------ the macros ---------------------------- *)

\* ASSERT_CKR_OK(rv): TRUE when the check fails: a failure is recorded and
\* the test body returns.
ASSERT_CKR_OK(r) == r # "CKR_OK"

\* EXPECT_CKR(expected, rv) / EXPECT_CKR_OK(rv): TRUE when the check fails:
\* a failure is recorded and the test body goes on.
EXPECT_CKR(expected, r) == r # expected

\* EXPECT_EQ(a, b): TRUE when the check fails.
EXPECT_EQ(a, b) == a # b

\* SKIP_IF_UNIMPLEMENTED_RV(rv): TRUE when the test is skipped and returns.
SKIP_IF_UNIMPLEMENTED_RV(r) == r = "CKR_MECHANISM_INVALID"

\* SKIP_IF_KEYPAIR_INVALID(rv): TRUE when the test is skipped and returns.
\* The macro reads the local keypair, not its argument.
\* mutant: the validity of the keypair is not checked
SKIP_IF_KEYPAIR_INVALID_Never(kp) == FALSE

SKIP_IF_KEYPAIR_INVALID(kp) == ~kp.valid

(* ------------------------ the module's replies ------------------------ *)

\* KeyPair / KeyPairEC constructor: either no keypair, or two fresh handles.
KeyPairs ==
  {NoKeyPair} \cup
  {[valid |-> TRUE, public_handle |-> 2 * k - 1, private_handle |-> 2 * k] :
     k \in 1..MaxKeys}

\* C_Sign / C_SignRecover with a buffer of `len` bytes: on CKR_OK a signature
\* is written and its length reported; otherwise nothing is written and the
\* length is left alone or set to the length a signature needs.
SignReplies(len) ==
  {[rv |-> "CKR_OK", out |-> Bytes(n, b), outlen |-> n] :
     n \in 1..MaxSigLen, b \in SampleBytes}
  \cup
  {[rv |-> r, out |-> <<>>, outlen |-> l] :
     r \in CKR \ {"CKR_OK"}, l \in {len, MaxSigLen}}

(* --------------------- SignTest / SignTestEC bodies ------------------- *)

\* Corrupt one byte of the signature: output[0]++ on a CK_BYTE.  A cell
\* nothing wrote holds any value.
\* mutant: the byte does not wrap
Increment_NoWrap(buf) ==
  IF Len(buf) >= 1
    THEN {[buf EXCEPT ![1] = buf[1] + 1]}
    ELSE {<<b>> : b \in SampleBytes}

Increment(buf) ==
  IF Len(buf) >= 1
    THEN {[buf EXCEPT ![1] = (buf[1] + 1) % ByteMod]}
    ELSE {<<b>> : b \in SampleBytes}

\* what the test body does to output between C_Sign and C_VerifyInit
CorruptSignature(name, buf) ==
  IF name = "SignFailVerifyWrong" THEN Increment(buf) ELSE {buf}

\* the signature length the test body hands to C_Verify
\* mutant: every test hands over the length C_Sign reported
SignatureLen_Full(name, len) == len

SignatureLen(name, len) ==
  IF name = "SignFailVerifyShort" THEN ShortLen ELSE len

\* mutant: SignVerify expects what SignFailVerifyWrong expects
ExpectedVerify_AllInvalid(name) ==
  CASE name = "SignFailVerifyShort" -> "CKR_SIGNATURE_LEN_RANGE"
    [] OTHER                        -> "CKR_SIGNATURE_INVALID"

\* the return code the test body expects of C_Verify
ExpectedVerify(name) ==
  CASE name = "SignVerify"          -> "CKR_OK"
    [] name = "SignFailVerifyWrong" -> "CKR_SIGNATURE_INVALID"
    [] name = "SignFailVerifyShort" -> "CKR_SIGNATURE_LEN_RANGE"

\* KeyPair keypair(session_, public_attrs_, private_attrs_);
\* SKIP_IF_KEYPAIR_INVALID(rv);
KeyPair ==
  /\ pc = "KeyPair"
  /\ IsParamTest
  /\ \E kp \in KeyPairs :
       /\ keypair' = kp
       /\ calls' = Append(calls,
            Call("C_GenerateKeyPair", INVALID_OBJECT_HANDLE, NoMechanism,
                 <<>>, 0, <<>>, 0, <<kp.public_handle, kp.private_handle>>, 0,
                 IF kp.valid THEN "CKR_OK" ELSE "CKR_GENERAL_ERROR"))
       /\ skipped' = (skipped \/ SKIP_IF_KEYPAIR_INVALID(kp))
       /\ pc' = IF SKIP_IF_KEYPAIR_INVALID(kp) THEN "done" ELSE "C_SignInit"
  /\ UNCHANGED <<test, mechanism_, data_, datalen_, rv, output, output_len,
                 recovered, recovered_len, failed>>

\* mutant: a C_SignInit that failed is recorded and the body goes on
C_SignInit_NoReturn ==
  /\ pc = "C_SignInit"
  /\ \E r \in CKR :
       /\ rv' = r
       /\ calls' = Append(calls,
            Call("C_SignInit", keypair.private_handle, mechanism_,
                 <<>>, 0, <<>>, 0, <<>>, 0, r))
       /\ IF SKIP_IF_UNIMPLEMENTED_RV(r)
            THEN /\ skipped' = TRUE
                 /\ failed' = failed
                 /\ pc' = "done"
            ELSE /\ skipped' = skipped
                 /\ failed' = (failed \/ ASSERT_CKR_OK(r))
                 /\ pc' = "C_Sign"
  /\ UNCHANGED <<test, mechanism_, data_, datalen_, keypair, output,
                 output_len, recovered, recovered_len>>

\* CK_RV rv = g_fns->C_SignInit(session_, &mechanism_, keypair.private_handle());
\* SKIP_IF_UNIMPLEMENTED_RV(rv); ASSERT_CKR_OK(rv);
C_SignInit ==
  /\ pc = "C_SignInit"
  /\ \E r \in CKR :
       /\ rv' = r
       /\ calls' = Append(calls,
            Call("C_SignInit", keypair.private_handle, mechanism_,
                 <<>>, 0, <<>>, 0, <<>>, 0, r))
       /\ IF SKIP_IF_UNIMPLEMENTED_RV(r)
            THEN /\ skipped' = TRUE
                 /\ failed' = failed
                 /\ pc' = "done"
            ELSE /\ skipped' = skipped
                 /\ failed' = (failed \/ ASSERT_CKR_OK(r))
                 /\ pc' = IF ASSERT_CKR_OK(r) THEN "done" ELSE "C_Sign"
  /\ UNCHANGED <<test, mechanism_, data_, datalen_, keypair, output,
                 output_len, recovered, recovered_len>>

\* CK_BYTE output[1024]; CK_ULONG output_len = sizeof(output);
\* EXPECT_CKR_OK(g_fns->C_Sign(session_, data_.get(), datalen_, output, &output_len));
\* and, in SignFailVerifyWrong, output[0]++;
C_Sign ==
  /\ pc = "C_Sign"
  /\ \E reply \in SignReplies(OutputSize) :
       /\ calls' = Append(calls,
            Call("C_Sign", INVALID_OBJECT_HANDLE, NoMechanism, data_, datalen_,
                 <<>>, 0, reply.out, reply.outlen, reply.rv))
       /\ output' \in CorruptSignature(test.name, reply.out)
       /\ output_len' = reply.outlen
       /\ failed' = (failed \/ EXPECT_CKR("CKR_OK", reply.rv))
  /\ pc' = "C_VerifyInit"
  /\ UNCHANGED <<test, mechanism_, data_, datalen_, keypair, rv, recovered,
                 recovered_len, skipped>>

\* ASSERT_CKR_OK(g_fns->C_VerifyInit(session_, &mechanism_, keypair.public_handle()));
C_VerifyInit ==
  /\ pc = "C_VerifyInit"
  /\ \E r \in CKR :
       /\ calls' = Append(calls,
            Call("C_VerifyInit", keypair.public_handle, mechanism_,
                 <<>>, 0, <<>>, 0, <<>>, 0, r))
       /\ failed' = (failed \/ ASSERT_CKR_OK(r))
       /\ pc' = IF ASSERT_CKR_OK(r) THEN "done" ELSE "C_Verify"
  /\ UNCHANGED <<test, mechanism_, data_, datalen_, keypair, rv, output,
                 output_len, recovered, recovered_len, skipped>>

\* EXPECT_CKR(<expected>, g_fns->C_Verify(session_, data_.get(), datalen_,
\*                                        output, <output_len or 4>));
C_Verify ==
  /\ pc = "C_Verify"
  /\ \E r \in CKR :
       /\ calls' = Append(calls,
            Call("C_Verify", INVALID_OBJECT_HANDLE, NoMechanism, data_, datalen_,
                 output, SignatureLen(test.name, output_len), <<>>, 0, r))
       /\ failed' = (failed \/ EXPECT_CKR(ExpectedVerify(test.name), r))
  /\ pc' = "done"
  /\ UNCHANGED <<test, mechanism_, data_, datalen_, keypair, rv, output,
                 output_len, recovered, recovered_len, skipped>>

(* ------------------- ROUserSessionTest.SignVerifyRecover -------------- *)

\* memcmp(a, b, n): 0 exactly when the first n bytes agree (only that is used)
\* mutant: the last byte is not compared
memcmp_OneShort(a, b, n) == IF \A i \in 1..(n - 1) : a[i] = b[i] THEN 0 ELSE 1

memcmp(a, b, n) == IF \A i \in 1..n : a[i] = b[i] THEN 0 ELSE 1

\* C_VerifyRecover on CKR_OK: the first datalen cells of recovered (those
\* the test reads, whoever wrote them) hold the data, or differ from it in
\* the first or the last byte; the length reported is datalen or one off.
RecoverReplies(data, datalen) ==
  {[rv |-> "CKR_OK", out |-> d, outlen |-> n] :
     d \in {data,
            [data EXCEPT ![1] = (data[1] + 1) % ByteMod],
            [data EXCEPT ![datalen] = (data[datalen] + 1) % ByteMod]},
     n \in (datalen - 1)..(datalen + 1)}
  \cup
  {[rv |-> r, out |-> <<>>, outlen |-> RecoverSize] : r \in CKR \ {"CKR_OK"}}

\* KeyPair keypair(session_, public_attrs, private_attrs);
\* if (!keypair.valid()) { TEST_SKIPPED(...); }     -- and the body goes on
\* const int datalen = 64; data = randmalloc(datalen);
\* CK_MECHANISM mechanism = {CKM_RSA_PKCS, NULL_PTR, 0};
KeyPairRecover ==
  /\ pc = "KeyPair"
  /\ ~IsParamTest
  /\ \E kp \in KeyPairs :
       /\ keypair' = kp
       /\ calls' = Append(calls,
            Call("C_GenerateKeyPair", INVALID_OBJECT_HANDLE, NoMechanism,
                 <<>>, 0, <<>>, 0, <<kp.public_handle, kp.private_handle>>, 0,
                 IF kp.valid THEN "CKR_OK" ELSE "CKR_GENERAL_ERROR"))
       /\ skipped' = (skipped \/ ~kp.valid)
  /\ datalen_' = DigestLen
  /\ data_' \in randmalloc(DigestLen)
  /\ mechanism_' = CK_MECHANISM("CKM_RSA_PKCS")
  /\ pc' = "C_SignRecoverInit"
  /\ UNCHANGED <<test, rv, output, output_len, recovered, recovered_len,
                 failed>>

\* CK_RV rv = g_fns->C_SignRecoverInit(session_, &mechanism, keypair.private_handle());
\* skipped on CKR_FUNCTION_NOT_SUPPORTED and on CKR_MECHANISM_INVALID;
\* ASSERT_CKR_OK(rv);
C_SignRecoverInit ==
  /\ pc = "C_SignRecoverInit"
  /\ \E r \in CKR :
       /\ rv' = r
       /\ calls' = Append(calls,
            Call("C_SignRecoverInit", keypair.private_handle, mechanism_,
                 <<>>, 0, <<>>, 0, <<>>, 0, r))
       /\ IF r = "CKR_FUNCTION_NOT_SUPPORTED" \/ r = "CKR_MECHANISM_INVALID"
            THEN /\ skipped' = TRUE
                 /\ failed' = failed
                 /\ pc' = "done"
            ELSE /\ skipped' = skipped
                 /\ failed' = (failed \/ ASSERT_CKR_OK(r))
                 /\ pc' = IF ASSERT_CKR_OK(r) THEN "done" ELSE "C_SignRecover"
  /\ UNCHANGED <<test, mechanism_, data_, datalen_, keypair, output,
                 output_len, recovered, recovered_len>>

\* CK_BYTE output[2048]; CK_ULONG output_len = sizeof(output);
\* EXPECT_CKR_OK(g_fns->C_SignRecover(session_, data.get(), datalen, output, &output_len));
C_SignRecover ==
  /\ pc = "C_SignRecover"
  /\ \E reply \in SignReplies(RecoverSize) :
       /\ calls' = Append(calls,
            Call("C_SignRecover", INVALID_OBJECT_HANDLE, NoMechanism, data_,
                 datalen_, <<>>, 0, reply.out, reply.outlen, reply.rv))
       /\ output' = reply.out
       /\ output_len' = reply.outlen
       /\ failed' = (failed \/ EXPECT_CKR("CKR_OK", reply.rv))
  /\ pc' = "C_VerifyRecoverInit"
  /\ UNCHANGED <<test, mechanism_, data_, datalen_, keypair, rv, recovered,
                 recovered_len, skipped>>

\* CK_BYTE recovered[2048]; CK_ULONG recovered_len = sizeof(recovered);
\* ASSERT_CKR_OK(g_fns->C_VerifyRecoverInit(session_, &mechanism, keypair.public_handle()));
C_VerifyRecoverInit ==
  /\ pc = "C_VerifyRecoverInit"
  /\ recovered_len' = RecoverSize
  /\ \E r \in CKR :
       /\ calls' = Append(calls,
            Call("C_VerifyRecoverInit", keypair.public_handle, mechanism_,
                 <<>>, 0, <<>>, 0, <<>>, 0, r))
       /\ failed' = (failed \/ ASSERT_CKR_OK(r))
       /\ pc' = IF ASSERT_CKR_OK(r) THEN "done" ELSE "C_VerifyRecover"
  /\ UNCHANGED <<test, mechanism_, data_, datalen_, keypair, rv, output,
                 output_len, recovered, skipped>>

\* ASSERT_CKR_OK(g_fns->C_VerifyRecover(session_, output, output_len, recovered, &recovered_len));
\* EXPECT_EQ(datalen, recovered_len);
\* EXPECT_EQ(0, memcmp(data.get(), recovered, datalen));
C_VerifyRecover ==
  /\ pc = "C_VerifyRecover"
  /\ \E reply \in RecoverReplies(data_, datalen_) :
       /\ calls' = Append(calls,
            Call("C_VerifyRecover", INVALID_OBJECT_HANDLE, NoMechanism, <<>>, 0,
                 output, output_len, reply.out, reply.outlen, reply.rv))
       /\ recovered' = reply.out
       /\ recovered_len' = reply.outlen
       /\ failed' =
            \/ failed
            \/ ASSERT_CKR_OK(reply.rv)
            \/ /\ ~ASSERT_CKR_OK(reply.rv)
               /\ \/ EXPECT_EQ(datalen_, reply.outlen)
                  \/ EXPECT_EQ(0, memcmp(data_, reply.out, datalen_))
  /\ pc' = "done"
  /\ UNCHANGED <<test, mechanism_, data_, datalen_, keypair, rv, output,
                 output_len, skipped>>

(* ----------------------------- specification -------------------------- *)

Next ==
  \/ KeyPair
  \/ C_SignInit
  \/ C_Sign
  \/ C_VerifyInit
  \/ C_Verify
  \/ KeyPairRecover
  \/ C_SignRecoverInit
  \/ C_SignRecover
  \/ C_VerifyRecoverInit
  \/ C_VerifyRecover

Spec == Init /\ [][Next]_vars

(* ------------------------------- claims ------------------------------- *)

Fns == [i \in 1..Len(calls) |-> calls[i].fn]

Called(fn) == \E i \in 1..Len(calls) : calls[i].fn = fn

CallOf(fn) == calls[CHOOSE i \in 1..Len(calls) : calls[i].fn = fn]

IsPrefix(s, t) == Len(s) <= Len(t) /\ \A i \in 1..Len(s) : s[i] = t[i]

ParamTestOrder ==
  <<"C_GenerateKeyPair", "C_SignInit", "C_Sign", "C_VerifyInit", "C_Verify">>

\* C_Verify was called over the data C_Sign signed, after a C_VerifyInit
\* with the public key of the test's keypair and the mechanism of C_SignInit
VerifiesWhatWasSigned ==
  /\ CallOf("C_Verify").data = CallOf("C_Sign").data
  /\ CallOf("C_Verify").datalen = CallOf("C_Sign").datalen
  /\ CallOf("C_Verify").data = data_
  /\ CallOf("C_SignInit").key = keypair.private_handle
  /\ CallOf("C_VerifyInit").key = keypair.public_handle
  /\ CallOf("C_VerifyInit").mech = CallOf("C_SignInit").mech
  /\ CallOf("C_VerifyInit").rv = "CKR_OK"
  /\ keypair.valid

\* the test ran to its end and no failure is recorded for it
Passed == pc = "done" /\ ~failed /\ ~skipped

\* C1: sign/verify round trip.  In SignTest.SignVerify and
\* SignTestEC.SignVerify, for every parameter, C_Verify is handed the data
\* that was signed, the signature bytes C_Sign wrote and the length C_Sign
\* reported, after C_VerifyInit with the public key of the same keypair and
\* the same mechanism, and the test requires CKR_OK of it: any other return
\* code is a failure of the test, and a test with a valid keypair and a
\* C_SignInit that returned CKR_OK ends without failure only when C_Sign
\* returned CKR_OK and C_Verify accepted its signature with CKR_OK.
C1_SignVerifyRoundTrip ==
  (IsParamTest /\ test.name = "SignVerify") =>
    /\ Called("C_Verify") =>
         /\ VerifiesWhatWasSigned
         /\ CallOf("C_Verify").sig = CallOf("C_Sign").out
         /\ CallOf("C_Verify").siglen = CallOf("C_Sign").outlen
         /\ CallOf("C_Verify").rv # "CKR_OK" => failed
    /\ (pc = "done" /\ keypair.valid /\ rv = "CKR_OK" /\ ~failed) =>
         /\ Called("C_Verify")
         /\ CallOf("C_Sign").rv = "CKR_OK"
         /\ CallOf("C_Verify").rv = "CKR_OK"

C1_Witness ==
  /\ IsParamTest /\ test.name = "SignVerify"
  /\ Passed
  /\ Called("C_Verify")
  /\ CallOf("C_Verify").rv = "CKR_OK"

\* C2: a corrupted signature is rejected.  In SignFailVerifyWrong of both
\* fixtures, after a C_Sign that returned CKR_OK, C_Verify is handed the same
\* data, the same signature length and the signature with its first byte
\* incremented modulo 256 (every other byte unchanged), and the test requires
\* CKR_SIGNATURE_INVALID of it: any other return code is a failure of the
\* test, and the test ends without failure only when C_Verify returned
\* CKR_SIGNATURE_INVALID.
C2_CorruptedSignatureRejected ==
  (IsParamTest /\ test.name = "SignFailVerifyWrong") =>
    /\ (Called("C_Verify") /\ CallOf("C_Sign").rv = "CKR_OK") =>
         /\ VerifiesWhatWasSigned
         /\ Len(CallOf("C_Sign").out) >= 1
         /\ CallOf("C_Verify").sig =
              [CallOf("C_Sign").out EXCEPT
                 ![1] = (CallOf("C_Sign").out[1] + 1) % 256]
         /\ CallOf("C_Verify").sig[1] \in 0..255
         /\ CallOf("C_Verify").sig # CallOf("C_Sign").out
         /\ CallOf("C_Verify").siglen = CallOf("C_Sign").outlen
    /\ Called("C_Verify") =>
         (CallOf("C_Verify").rv # "CKR_SIGNATURE_INVALID" => failed)
    /\ (pc = "done" /\ keypair.valid /\ rv = "CKR_OK" /\ ~failed) =>
         /\ Called("C_Verify")
         /\ CallOf("C_Sign").rv = "CKR_OK"
         /\ CallOf("C_Verify").rv = "CKR_SIGNATURE_INVALID"

\* the first byte of the signature was 255 and wrapped to 0
C2_Witness ==
  /\ IsParamTest /\ test.name = "SignFailVerifyWrong"
  /\ Passed
  /\ Called("C_Verify")
  /\ CallOf("C_Sign").out[1] = 255
  /\ CallOf("C_Verify").sig[1] = 0

\* C3: a truncated signature is rejected by its length.  In
\* SignFailVerifyShort of both fixtures, after a C_Sign that returned CKR_OK,
\* C_Verify is handed the same data, the signature buffer exactly as C_Sign
\* wrote it and a signature length of 4, and the test requires
\* CKR_SIGNATURE_LEN_RANGE of it: any other return code, CKR_SIGNATURE_INVALID
\* included, is a failure of the test.
C3_ShortSignatureLenRange ==
  (IsParamTest /\ test.name = "SignFailVerifyShort") =>
    /\ (Called("C_Verify") /\ CallOf("C_Sign").rv = "CKR_OK") =>
         /\ VerifiesWhatWasSigned
         /\ CallOf("C_Verify").sig = CallOf("C_Sign").out
         /\ CallOf("C_Verify").siglen = 4
    /\ Called("C_Verify") =>
         (CallOf("C_Verify").rv # "CKR_SIGNATURE_LEN_RANGE" => failed)
    /\ (pc = "done" /\ keypair.valid /\ rv = "CKR_OK" /\ ~failed) =>
         /\ Called("C_Verify")
         /\ CallOf("C_Sign").rv = "CKR_OK"
         /\ CallOf("C_Verify").rv = "CKR_SIGNATURE_LEN_RANGE"

\* the signature C_Sign wrote is longer than the 4 bytes handed to C_Verify
C3_Witness ==
  /\ IsParamTest /\ test.name = "SignFailVerifyShort"
  /\ Passed
  /\ Called("C_Verify")
  /\ CallOf("C_Sign").outlen > 4
  /\ CallOf("C_Verify").siglen = 4

\* C4: sign-recover / verify-recover round trip.  In SignVerifyRecover the
\* mechanism is CKM_RSA_PKCS and the data 64 bytes; C_VerifyRecover is handed
\* the bytes C_SignRecover wrote and the length it reported, after
\* C_VerifyRecoverInit with the public key of the same keypair, and the test
\* requires CKR_OK, a recovered length of exactly 64 and the 64 recovered
\* bytes equal to the 64 data bytes: anything else is a failure of the test,
\* and a test whose C_SignRecoverInit returned CKR_OK ends without failure
\* only when all three hold.
C4_SignVerifyRecoverRoundTrip ==
  (test.name = "SignVerifyRecover") =>
    /\ Called("C_VerifyRecover") =>
         /\ CallOf("C_SignRecoverInit").mech = CK_MECHANISM("CKM_RSA_PKCS")
         /\ CallOf("C_VerifyRecoverInit").mech = CK_MECHANISM("CKM_RSA_PKCS")
         /\ CallOf("C_SignRecoverInit").key = keypair.private_handle
         /\ CallOf("C_VerifyRecoverInit").key = keypair.public_handle
         /\ CallOf("C_SignRecover").data = data_
         /\ CallOf("C_SignRecover").datalen = 64
         /\ Len(data_) = 64
         /\ CallOf("C_VerifyRecover").sig = CallOf("C_SignRecover").out
         /\ CallOf("C_VerifyRecover").siglen = CallOf("C_SignRecover").outlen
         /\ pc = "done"
         /\ recovered = CallOf("C_VerifyRecover").out
         /\ recovered_len = CallOf("C_VerifyRecover").outlen
         /\ ( \/ CallOf("C_VerifyRecover").rv # "CKR_OK"
              \/ recovered_len # 64
              \/ \E i \in 1..64 : recovered[i] # data_[i] ) => failed
    /\ (pc = "done" /\ rv = "CKR_OK" /\ ~failed) =>
         /\ Called("C_VerifyRecover")
         /\ CallOf("C_SignRecover").rv = "CKR_OK"
         /\ CallOf("C_VerifyRecover").rv = "CKR_OK"
         /\ recovered_len = 64
         /\ SubSeq(recovered, 1, 64) = data_

C4_Witness ==
  /\ test.name = "SignVerifyRecover"
  /\ pc = "done" /\ ~failed
  /\ rv = "CKR_OK"
  /\ Called("C_VerifyRecover")
  /\ recovered_len = 64
  /\ recovered = data_

\* C5: call ordering.  In every SignTest and SignTestEC test the calls to the
\* module are a prefix of: keypair generation, C_SignInit, C_Sign,
\* C_VerifyInit, C_Verify; C_Sign is called only after a C_SignInit that
\* returned CKR_OK and C_Verify only after a C_VerifyInit that returned
\* CKR_OK; C_SignInit is given the private handle and C_VerifyInit the public
\* handle of the keypair generated in that test, which is valid.
C5_CallOrdering ==
  IsParamTest =>
    /\ IsPrefix(Fns, ParamTestOrder)
    /\ Called("C_Sign") => CallOf("C_SignInit").rv = "CKR_OK"
    /\ Called("C_Verify") => CallOf("C_VerifyInit").rv = "CKR_OK"
    /\ Called("C_SignInit") =>
         /\ CallOf("C_GenerateKeyPair").rv = "CKR_OK"
         /\ keypair.valid
         /\ CallOf("C_SignInit").key = CallOf("C_GenerateKeyPair").out[2]
         /\ CallOf("C_SignInit").key = keypair.private_handle
    /\ Called("C_VerifyInit") =>
         /\ CallOf("C_VerifyInit").key = CallOf("C_GenerateKeyPair").out[1]
         /\ CallOf("C_VerifyInit").key = keypair.public_handle
         /\ CallOf("C_VerifyInit").key # CallOf("C_SignInit").key

\* a test made all five calls
C5_Witness ==
  /\ IsParamTest
  /\ test.fixture = "SignTestEC" /\ test.name = "SignFailVerifyShort"
  /\ Fns = ParamTestOrder

\* C6: skip on an invalid keypair.  In every SignTest and SignTestEC test,
\* when the keypair that was generated is not valid, the test is recorded as
\* skipped, its body has returned, none of C_SignInit, C_Sign, C_VerifyInit,
\* C_Verify was called and no failure is recorded for it.
C6_SkipOnInvalidKeypair ==
  (IsParamTest /\ Called("C_GenerateKeyPair") /\ ~keypair.valid) =>
    /\ skipped
    /\ pc = "done"
    /\ Fns = <<"C_GenerateKeyPair">>
    /\ ~failed

C6_Witness ==
  /\ IsParamTest
  /\ Called("C_GenerateKeyPair")
  /\ ~keypair.valid
  /\ skipped
  /\ pc = "done"

=============================================================================
